---- MODULE Spec2Model ----
(***************************************************************************)
(* screenpipe-pipe-runner: resolution of one pipe reference (a local path  *)
(* or a URL) into a local script file that is handed to run_js.            *)
(*                                                                         *)
(* Strings are sequences of atoms: the separators "/" and ".", the scheme  *)
(* "https:" and name chunks between separators.  A URL, a local path and a *)
(* file extension are all such sequences, so that splitting, joining,      *)
(* parsing and formatting are computed and not assumed.  Bytes and code    *)
(* points are integers.                                                    *)
(***************************************************************************)
EXTENDS Integers, Sequences, FiniteSets, TLC

\* ------------------------------------------------------------------ bounds

\* Longest path (in segments) of the URLs given to get_raw_github_url.
MaxSegs == 5

\* Names the temporary-file generator can draw from.
NumTempNames == 2

\* ------------------------------------------------------------- string atoms

Slash == "/"

Dot == "."

Question == "?"

Scheme == "https:"

GithubHost == <<"github", Dot, "com">>

RawHost == <<"raw", Dot, "githubusercontent", Dot, "com">>

ExampleHost == <<"example", Dot, "com">>

MixedCaseGithubHost == <<"GitHub", Dot, "com">>

\* str::split(sep): the pieces between separators, at least one piece.
RECURSIVE SplitOn(_, _)
SplitOn(s, sep) ==
    IF \A i \in 1..Len(s) : s[i] # sep
    THEN <<s>>
    ELSE LET i == CHOOSE k \in 1..Len(s) :
                      s[k] = sep /\ \A j \in 1..(k - 1) : s[j] # sep
         IN  <<SubSeq(s, 1, i - 1)>> \o SplitOn(SubSeq(s, i + 1, Len(s)), sep)

\* [&str]::join("/")
RECURSIVE Join(_)
Join(segs) ==
    IF Len(segs) = 0 THEN <<>>
    ELSE IF Len(segs) = 1 THEN segs[1]
    ELSE segs[1] \o <<Slash>> \o Join(Tail(segs))

\* The text "https://{host}" followed by "/{segment}" for every segment.
RECURSIVE PathText(_)
PathText(segs) ==
    IF Len(segs) = 0 THEN <<>>
    ELSE <<Slash>> \o segs[1] \o PathText(Tail(segs))

UrlString(host, segs) == <<Scheme, Slash, Slash>> \o host \o PathText(segs)

\* ---------------------------------------------------------------- Url::parse

\* Host names are lower-cased by the parser.
LowerAtom(a) == IF a = "GitHub" THEN "github" ELSE a

LowerHost(h) == [i \in 1..Len(h) |-> LowerAtom(h[i])]

RECURSIVE StripSlashes(_)
StripSlashes(s) ==
    IF Len(s) > 0 /\ s[1] = Slash THEN StripSlashes(Tail(s)) ELSE s

\* The parser's path state: "." is skipped and ".." drops the segment before
\* it; either one, when it is the last segment, leaves an empty last segment.
RECURSIVE RemoveDotSegments(_, _)
RemoveDotSegments(todo, out) ==
    IF Len(todo) = 0 THEN out
    ELSE LET seg  == todo[1]
             last == Len(todo) = 1
             tl   == IF last THEN << <<>> >> ELSE <<>>
         IN  IF seg = <<Dot, Dot>>
             THEN RemoveDotSegments(Tail(todo),
                    (IF Len(out) = 0 THEN out ELSE SubSeq(out, 1, Len(out) - 1)) \o tl)
             ELSE IF seg = <<Dot>>
             THEN RemoveDotSegments(Tail(todo), out \o tl)
             ELSE RemoveDotSegments(Tail(todo), Append(out, seg))

\* Url::parse: ok is FALSE for a string with no scheme (a relative or absolute
\* local path) and for an empty host; host is host_str(), segs is what
\* path_segments() yields (the path after its leading "/", split on "/").  The
\* query, from the first "?", is part of neither.
ParseUrl(s) ==
    IF Len(s) = 0 \/ s[1] # Scheme
    THEN [ok |-> FALSE, host |-> <<>>, segs |-> <<>>]
    ELSE LET rest  == StripSlashes(SplitOn(Tail(s), Question)[1])
             parts == SplitOn(rest, Slash)
             host  == parts[1]
         IN  IF Len(host) = 0
             THEN [ok |-> FALSE, host |-> <<>>, segs |-> <<>>]
             ELSE [ok   |-> TRUE,
                   host |-> LowerHost(host),
                   segs |-> IF Len(parts) = 1
                            THEN << <<>> >>
                            ELSE RemoveDotSegments(Tail(parts), <<>>)]

\* ------------------------------------------------------- get_raw_github_url

NoUrl == <<>>

\* The three ways the function ends: Ok(url), Err (the parse error of line 72)
\* and Panic (an index out of bounds).
NormOk(u) == [tag |-> "Ok", url |-> u]

NormErr == [tag |-> "Err", url |-> NoUrl]

NormPanic == [tag |-> "Panic", url |-> NoUrl]

get_raw_github_url_keep_marker(url) ==
    LET parsed_url == ParseUrl(url)
        path_segments == parsed_url.segs
    IN  IF ~parsed_url.ok THEN NormErr
        ELSE IF parsed_url.host = GithubHost /\ Len(path_segments) >= 3
        THEN IF Len(path_segments) < 4 THEN NormPanic
             ELSE NormOk(<<Scheme, Slash, Slash>> \o RawHost
                         \o <<Slash>> \o path_segments[1]
                         \o <<Slash>> \o path_segments[2]
                         \o <<Slash>> \o path_segments[3]
                         \o <<Slash>> \o Join(SubSeq(path_segments, 4, Len(path_segments))))
        ELSE NormOk(url)

get_raw_github_url(url) ==
    LET parsed_url == ParseUrl(url)
        path_segments == parsed_url.segs
    IN  IF ~parsed_url.ok THEN NormErr
        ELSE IF parsed_url.host = GithubHost /\ Len(path_segments) >= 3
        THEN \* path_segments[3] (0-based) is read whenever len >= 3
             IF Len(path_segments) < 4 THEN NormPanic
             ELSE LET owner    == path_segments[1]
                      repo     == path_segments[2]
                      branch   == path_segments[4]
                      raw_path == Join(SubSeq(path_segments, 5, Len(path_segments)))
                  IN  NormOk(<<Scheme, Slash, Slash>> \o RawHost
                             \o <<Slash>> \o owner \o <<Slash>> \o repo
                             \o <<Slash>> \o branch \o <<Slash>> \o raw_path)
        ELSE NormOk(url)

\* ------------------------------------------------- Path::extension and paths

None == [some |-> FALSE, val |-> <<>>]

Some(v) == [some |-> TRUE, val |-> v]

\* Path::components(): empty pieces (repeated or trailing "/") and "." are
\* dropped; the string never starts with "." or "/" here.
IsComponent(c) == c # <<>> /\ c # <<Dot>>

Components(s) == SelectSeq(SplitOn(s, Slash), IsComponent)

LastDot(file) ==
    CHOOSE i \in 1..Len(file) :
        file[i] = Dot /\ \A j \in (i + 1)..Len(file) : file[j] # Dot

\* Path::new(s).extension(): of the last component, the text after its last
\* "."; None when there is no component, when it is "..", when it has no "."
\* or when its only "." is its first character.
path_extension(s) ==
    LET comps == Components(s)
    IN  IF Len(comps) = 0 THEN None
        ELSE LET file == comps[Len(comps)]
             IN  IF file = <<Dot, Dot>> THEN None
                 ELSE IF \A i \in 1..Len(file) : file[i] # Dot THEN None
                 ELSE IF LastDot(file) = 1 THEN None
                 ELSE Some(SubSeq(file, LastDot(file) + 1, Len(file)))

DefaultExtension == <<"js">>

\* Lines 142-145: the extension of the input string read as a path, else "js".
extension_of(url) ==
    IF path_extension(url).some THEN path_extension(url).val ELSE DefaultExtension

\* A file path: the temporary directory's files are ".tmp<stem>" plus an
\* optional ".<ext>"; the canonicalized local script is the one "local" path.
NoPath == [dir |-> "none", stem |-> 0, ext |-> <<>>]

LocalScript == [dir |-> "local", stem |-> 0, ext |-> <<>>]

TempPaths == {[dir |-> "tmp", stem |-> k, ext |-> <<>>] : k \in 1..NumTempNames}

\* Path::with_extension on a name that has no extension: an empty extension
\* leaves the name as it is.
with_extension(path, ext) == [path EXCEPT !.ext = ext]

\* ------------------------------------------------------------ response.text()

Replacement == <<65533>>

IsCont(b) == b >= 128 /\ b <= 191

\* UTF-8 decoding with every malformed sequence replaced by U+FFFD.
RECURSIVE decode_utf8(_)
decode_utf8(bs) ==
    IF Len(bs) = 0 THEN <<>>
    ELSE LET b    == bs[1]
             n    == Len(bs)
             need == IF b < 128 THEN 1
                     ELSE IF b >= 194 /\ b <= 223 THEN 2
                     ELSE IF b >= 224 /\ b <= 239 THEN 3
                     ELSE IF b >= 240 /\ b <= 244 THEN 4
                     ELSE 0
             lo2  == IF b = 224 THEN 160 ELSE IF b = 240 THEN 144 ELSE 128
             hi2  == IF b = 237 THEN 159 ELSE IF b = 244 THEN 143 ELSE 191
             ok2  == n >= 2 /\ bs[2] >= lo2 /\ bs[2] <= hi2
             ok3  == ok2 /\ n >= 3 /\ IsCont(bs[3])
             ok4  == ok3 /\ n >= 4 /\ IsCont(bs[4])
             good == \/ need = 1
                     \/ need = 2 /\ ok2
                     \/ need = 3 /\ ok3
                     \/ need = 4 /\ ok4
             used == IF good THEN need
                     ELSE IF need = 0 \/ ~ok2 THEN 1
                     ELSE IF need = 4 /\ ok3 THEN 3
                     ELSE 2
             cp   == IF ~good THEN Replacement[1]
                     ELSE IF need = 1 THEN b
                     ELSE IF need = 2 THEN (b - 192) * 64 + (bs[2] - 128)
                     ELSE IF need = 3
                     THEN (b - 224) * 4096 + (bs[2] - 128) * 64 + (bs[3] - 128)
                     ELSE (b - 240) * 262144 + (bs[2] - 128) * 4096
                          + (bs[3] - 128) * 64 + (bs[4] - 128)
         IN  <<cp>> \o decode_utf8(SubSeq(bs, used + 1, n))

Utf8Bom == <<239, 187, 191>>

\* Response::text(): the body decoded as UTF-8 (the default charset), a leading
\* byte order mark removed, malformed bytes replaced; the bodies of the model
\* do not start with a UTF-16 byte order mark.
response_text(body) ==
    IF Len(body) >= 3 /\ SubSeq(body, 1, 3) = Utf8Bom
    THEN decode_utf8(SubSeq(body, 4, Len(body)))
    ELSE decode_utf8(body)

\* String::as_bytes(): the UTF-8 encoding of the text.
RECURSIVE as_bytes(_)
as_bytes(text) ==
    IF Len(text) = 0 THEN <<>>
    ELSE LET c == text[1]
             enc == IF c < 128 THEN <<c>>
                    ELSE IF c < 2048 THEN <<192 + (c \div 64), 128 + (c % 64)>>
                    ELSE IF c < 65536
                    THEN <<224 + (c \div 4096), 128 + ((c \div 64) % 64), 128 + (c % 64)>>
                    ELSE <<240 + (c \div 262144), 128 + ((c \div 4096) % 64),
                           128 + ((c \div 64) % 64), 128 + (c % 64)>>
         IN  enc \o as_bytes(Tail(text))

\* -------------------------------------------------------------------- state

Procs == {1, 2}

VARIABLES
    pipe_input,     \* cli.pipe[0] of each run
    local_exists,   \* whether the local path of a non-URL input can be canonicalized
    server,         \* what the content host answers to a GET: status and body bytes
    fs,             \* the temporary directory: files [name, owner, data], one per name
    pc,             \* where each run stands
    raw_url,        \* download_pipe's raw_url
    response,       \* download_pipe's response
    content,        \* content.as_bytes()
    temp_path,      \* the path of temp_file / temp_path
    final_path,     \* download_pipe's final_path
    result,         \* how the resolution ended: Ok(path), Err at a stage, Panic
    gets,           \* GET requests sent by each run
    created,        \* files created by each run
    runs,           \* calls of run_js by each run
    engine_input,   \* what run_js found at the path it was given
    exit_status     \* how main ended

vars == <<pipe_input, local_exists, server, fs, pc, raw_url, response, content,
          temp_path, final_path, result, gets, created, runs, engine_input,
          exit_status>>

NoResponse == [status |-> 0, body |-> <<>>]

Pending == [tag |-> "Pending", stage |-> "", path |-> NoPath]

Ok(path) == [tag |-> "Ok", stage |-> "", path |-> path]

Err(stage) == [tag |-> "Err", stage |-> stage, path |-> NoPath]

Panicked == [tag |-> "Panic", stage |-> "normalize", path |-> NoPath]

NoEngineInput == [path |-> NoPath, present |-> FALSE, data |-> <<>>]

\* ------------------------------------------------------------------- inputs

\* Path segments: names, a name with an extension, the empty segment and the
\* two dot segments.
Blob == <<"blob">>

NormSegments == {<<"o">>, Blob, <<"a", Dot, "js">>, <<Dot, Dot>>, <<Dot>>, <<>>}

NormPaths == UNION {[1..k -> NormSegments] : k \in 0..MaxSegs}

\* Every input of get_raw_github_url: download_pipe is entered only with a
\* string that parsed as a URL.
NormInputs == {UrlString(h, s) : h \in {GithubHost, RawHost, ExampleHost}, s \in NormPaths}

PipePaths ==
    { <<>>,
      << <<"o">>, <<"r">> >>,
      << <<"o">>, <<"r">>, Blob >>,
      << <<"o">>, <<"r">>, Blob, <<"main">> >>,
      << <<"o">>, <<"r">>, Blob, <<"main">>, <<"a", Dot, "py">> >>,
      << <<"o">>, <<"r">>, <<"main">>, <<"run">> >>,
      << <<"o">>, <<"r">>, <<"main">>, <<"a", Dot, "py">> >>,
      << <<"o">>, <<"r">>, <<"main">>, <<"a", Dot, "py">>, <<>> >>,
      << <<"o">>, <<"r">>, <<"main">>, <<"a", Dot>> >> }

PipeUrls ==
    {UrlString(h, s) : h \in {GithubHost, MixedCaseGithubHost, RawHost, ExampleHost},
                       s \in PipePaths}
    \cup {UrlString(RawHost, << <<"o">>, <<"r">>, <<"main">>, <<"a", Dot, "py">> >>)
          \o <<Question, "token">>}

LocalInputs == { <<"pipe", Dot, "js">>, <<Slash, "opt", Slash, "pipe", Dot, "js">> }

PipeInputs == PipeUrls \cup LocalInputs

\* Bodies: empty, ASCII, a two-byte character, a byte no UTF-8 text contains,
\* and a text behind a byte order mark.
Bodies == { <<>>, <<97>>, <<195, 169>>, <<97, 255>>, <<239, 187, 191, 97>> }

Statuses == {200, 404}

Servers == {[status |-> st, body |-> b] : st \in Statuses, b \in Bodies}

\* --------------------------------------------------------------- the start

Start(active, label, u, srv, le) ==
    /\ pipe_input = [p \in Procs |-> u]
    /\ local_exists = le
    /\ server = srv
    /\ fs = {}
    /\ pc = [p \in Procs |-> IF p \in active THEN label ELSE "off"]
    /\ raw_url = [p \in Procs |-> NoUrl]
    /\ response = [p \in Procs |-> NoResponse]
    /\ content = [p \in Procs |-> <<>>]
    /\ temp_path = [p \in Procs |-> NoPath]
    /\ final_path = [p \in Procs |-> NoPath]
    /\ result = [p \in Procs |-> Pending]
    /\ gets = [p \in Procs |-> 0]
    /\ created = [p \in Procs |-> 0]
    /\ runs = [p \in Procs |-> 0]
    /\ engine_input = [p \in Procs |-> NoEngineInput]
    /\ exit_status = [p \in Procs |-> "running"]

\* One run of the program.
Init ==
    \E u \in PipeInputs, srv \in Servers, le \in BOOLEAN :
        Start({1}, "main", u, srv, le)

\* Two runs of the program on the same input, sharing the temporary directory.
InitTwo ==
    \E u \in {UrlString(RawHost, << <<"o">>, <<"r">>, <<"main">>, <<"a", Dot, "py">> >>),
              UrlString(ExampleHost, <<>>), <<"pipe", Dot, "js">>},
       le \in BOOLEAN :
        Start({1, 2}, "main", u, [status |-> 200, body |-> <<97>>], le)

\* download_pipe entered with any URL, about to call get_raw_github_url.
InitNorm ==
    \E u \in NormInputs :
        Start({1}, "dl_normalize", u, [status |-> 200, body |-> <<97>>], FALSE)

\* ------------------------------------------------------------ the file system

Exists(dir, name) == \E f \in dir : f.name = name

FileAt(dir, name) == CHOOSE f \in dir : f.name = name

\* fs::remove_file, its error ignored (the drop of a TempPath).
remove_file(dir, name) == {f \in dir : f.name # name}

\* fs::rename of an existing file: the target's old file, if any, is replaced.
rename(dir, from, to) ==
    IF from = to THEN dir
    ELSE {f \in dir : f.name # from /\ f.name # to}
         \cup {[FileAt(dir, from) EXCEPT !.name = to]}

\* write_all through the open handle: the file is the one this run created,
\* also when its name is gone.
write_file(dir, name, owner, data) ==
    {IF f.name = name /\ f.owner = owner THEN [f EXCEPT !.data = data] ELSE f : f \in dir}

\* ----------------------------------------------------------------------- main

\* Lines 34-47: Url::parse decides between download_pipe and canonicalize.
main_classify(p) ==
    /\ pc[p] = "main"
    /\ pc' = [pc EXCEPT ![p] = IF ParseUrl(pipe_input[p]).ok
                               THEN "dl_normalize" ELSE "canonicalize"]
    /\ UNCHANGED <<pipe_input, local_exists, server, fs, raw_url, response, content,
                   temp_path, final_path, result, gets, created, runs,
                   engine_input, exit_status>>

main_canonicalize_run_anyway(p) ==
    /\ pc[p] = "canonicalize"
    /\ result' = [result EXCEPT ![p] = IF local_exists THEN Ok(LocalScript)
                                       ELSE Err("canonicalize")]
    /\ pc' = [pc EXCEPT ![p] = "run_js"]
    /\ UNCHANGED <<pipe_input, local_exists, server, fs, raw_url, response, content,
                   temp_path, final_path, gets, created, runs, engine_input,
                   exit_status>>

\* Lines 47-53: Path::canonicalize; its error ends main.
main_canonicalize(p) ==
    /\ pc[p] = "canonicalize"
    /\ IF local_exists
       THEN /\ result' = [result EXCEPT ![p] = Ok(LocalScript)]
            /\ pc' = [pc EXCEPT ![p] = "run_js"]
            /\ UNCHANGED exit_status
       ELSE /\ result' = [result EXCEPT ![p] = Err("canonicalize")]
            /\ pc' = [pc EXCEPT ![p] = "exit"]
            /\ exit_status' = [exit_status EXCEPT ![p] = "err"]
    /\ UNCHANGED <<pipe_input, local_exists, server, fs, raw_url, response, content,
                   temp_path, final_path, gets, created, runs, engine_input>>

\* Lines 57-67: run_js on the resolved path; the engine reads the file there.
main_run_js(p) ==
    /\ pc[p] = "run_js"
    /\ runs' = [runs EXCEPT ![p] = @ + 1]
    /\ engine_input' = [engine_input EXCEPT ![p] =
          LET path == result[p].path
          IN  IF path = LocalScript
              THEN [path |-> path, present |-> TRUE, data |-> <<>>]
              ELSE IF Exists(fs, path)
              THEN [path |-> path, present |-> TRUE, data |-> FileAt(fs, path).data]
              ELSE [path |-> path, present |-> FALSE, data |-> <<>>]]
    /\ \E st \in {"ok", "err"} : exit_status' = [exit_status EXCEPT ![p] = st]
    /\ pc' = [pc EXCEPT ![p] = "exit"]
    /\ UNCHANGED <<pipe_input, local_exists, server, fs, raw_url, response, content,
                   temp_path, final_path, result, gets, created>>

\* -------------------------------------------------------------- download_pipe

Fail_and_go_on(p, stage) ==
    /\ result' = [result EXCEPT ![p] = Err(stage)]
    /\ pc' = [pc EXCEPT ![p] = "run_js"]
    /\ UNCHANGED exit_status

\* download_pipe returns Err from `stage`: main logs it and returns it.
Fail(p, stage) ==
    /\ result' = [result EXCEPT ![p] = Err(stage)]
    /\ pc' = [pc EXCEPT ![p] = "exit"]
    /\ exit_status' = [exit_status EXCEPT ![p] = "err"]

\* Line 98: get_raw_github_url(url)?; a panic aborts the program.
dl_normalize(p) ==
    /\ pc[p] = "dl_normalize"
    /\ LET r == get_raw_github_url(pipe_input[p])
       IN  IF r.tag = "Ok"
           THEN /\ raw_url' = [raw_url EXCEPT ![p] = r.url]
                /\ pc' = [pc EXCEPT ![p] = "dl_validate"]
                /\ UNCHANGED <<result, exit_status>>
           ELSE IF r.tag = "Err"
           THEN Fail(p, "normalize") /\ UNCHANGED raw_url
           ELSE /\ result' = [result EXCEPT ![p] = Panicked]
                /\ pc' = [pc EXCEPT ![p] = "exit"]
                /\ exit_status' = [exit_status EXCEPT ![p] = "panic"]
                /\ UNCHANGED raw_url
    /\ UNCHANGED <<pipe_input, local_exists, server, fs, response, content,
                   temp_path, final_path, gets, created, runs, engine_input>>

host_supported_or_github(url) ==
    ParseUrl(url).host \in {RawHost, GithubHost}

\* Line 100: host_str() == Some("raw.githubusercontent.com")
host_supported(url) == ParseUrl(url).host = RawHost

\* Lines 99-105: the raw URL is parsed again and its host checked.
dl_validate(p) ==
    /\ pc[p] = "dl_validate"
    /\ IF ~ParseUrl(raw_url[p]).ok THEN Fail(p, "parse")
       ELSE IF ~host_supported(raw_url[p]) THEN Fail(p, "unsupported")
       ELSE /\ pc' = [pc EXCEPT ![p] = "dl_get"]
            /\ UNCHANGED <<result, exit_status>>
    /\ UNCHANGED <<pipe_input, local_exists, server, fs, raw_url, response, content,
                   temp_path, final_path, gets, created, runs, engine_input>>

\* Lines 108-116: stdout is flushed, then reqwest::get(&raw_url); a response of
\* any status is Ok(resp).
dl_get(p) ==
    /\ pc[p] = "dl_get"
    /\ \E outcome \in {"flush_err", "get_err", "resp"} :
         IF outcome = "flush_err"
         THEN Fail(p, "flush") /\ UNCHANGED <<gets, response>>
         ELSE IF outcome = "get_err"
         THEN /\ gets' = [gets EXCEPT ![p] = @ + 1]
              /\ Fail(p, "get")
              /\ UNCHANGED response
         ELSE /\ gets' = [gets EXCEPT ![p] = @ + 1]
              /\ response' = [response EXCEPT ![p] = server]
              /\ pc' = [pc EXCEPT ![p] = "dl_text"]
              /\ UNCHANGED <<result, exit_status>>
    /\ UNCHANGED <<pipe_input, local_exists, server, fs, raw_url, content,
                   temp_path, final_path, created, runs, engine_input>>

\* Lines 118-124: response.text(); it fails only when the body cannot be read.
dl_text(p) ==
    /\ pc[p] = "dl_text"
    /\ \E read_ok \in BOOLEAN :
         IF read_ok
         THEN /\ content' = [content EXCEPT ![p] = as_bytes(response_text(response[p].body))]
              /\ pc' = [pc EXCEPT ![p] = "dl_create"]
              /\ UNCHANGED <<result, exit_status>>
         ELSE Fail(p, "text") /\ UNCHANGED content
    /\ UNCHANGED <<pipe_input, local_exists, server, fs, raw_url, response,
                   temp_path, final_path, gets, created, runs, engine_input>>

\* Lines 128-134: NamedTempFile::new() creates, exclusively, a file whose
\* random name no file of the directory has.
dl_create(p) ==
    /\ pc[p] = "dl_create"
    /\ \E name \in TempPaths \cup {NoPath} :
         IF name = NoPath
         THEN Fail(p, "create") /\ UNCHANGED <<fs, temp_path, created>>
         ELSE /\ ~Exists(fs, name)
              /\ fs' = fs \cup {[name |-> name, owner |-> p, data |-> <<>>]}
              /\ temp_path' = [temp_path EXCEPT ![p] = name]
              /\ created' = [created EXCEPT ![p] = @ + 1]
              /\ pc' = [pc EXCEPT ![p] = "dl_write"]
              /\ UNCHANGED <<result, exit_status>>
    /\ UNCHANGED <<pipe_input, local_exists, server, raw_url, response, content,
                   final_path, gets, runs, engine_input>>

\* Lines 136-139: write_all; on an error a proper prefix of the content is
\* written and the NamedTempFile is dropped on the way out.  Nothing is written,
\* and nothing can fail, for an empty content.
dl_write(p) ==
    /\ pc[p] = "dl_write"
    /\ \E k \in 0..Len(content[p]), write_ok \in BOOLEAN :
         /\ write_ok <=> k = Len(content[p])
         /\ fs' = write_file(fs, temp_path[p], p, SubSeq(content[p], 1, k))
         /\ pc' = [pc EXCEPT ![p] = IF write_ok THEN "dl_rename" ELSE "drop_after_write"]
    /\ UNCHANGED <<pipe_input, local_exists, server, raw_url, response, content,
                   temp_path, final_path, result, gets, created, runs,
                   engine_input, exit_status>>

\* Lines 142-155: the extension of the input, the final path, fs::rename.  A
\* rename of a name that is gone fails; any rename can fail.
dl_rename(p) ==
    /\ pc[p] = "dl_rename"
    /\ LET extension == extension_of(pipe_input[p])
           final     == with_extension(temp_path[p], extension)
       IN  \E rename_ok \in BOOLEAN :
             IF rename_ok /\ Exists(fs, temp_path[p])
             THEN /\ fs' = rename(fs, temp_path[p], final)
                  /\ final_path' = [final_path EXCEPT ![p] = final]
                  /\ pc' = [pc EXCEPT ![p] = "drop_after_ok"]
             ELSE /\ pc' = [pc EXCEPT ![p] = "drop_after_rename"]
                  /\ UNCHANGED <<fs, final_path>>
    /\ UNCHANGED <<pipe_input, local_exists, server, raw_url, response, content,
                   temp_path, result, gets, created, runs, engine_input, exit_status>>

drop_after_write_keep(p) ==
    /\ pc[p] = "drop_after_write"
    /\ Fail(p, "write")
    /\ UNCHANGED <<pipe_input, local_exists, server, fs, raw_url, response, content,
                   temp_path, final_path, gets, created, runs, engine_input>>

\* Line 138: returning drops temp_file, which removes the file at its path.
drop_after_write(p) ==
    /\ pc[p] = "drop_after_write"
    /\ fs' = remove_file(fs, temp_path[p])
    /\ Fail(p, "write")
    /\ UNCHANGED <<pipe_input, local_exists, server, raw_url, response, content,
                   temp_path, final_path, gets, created, runs, engine_input>>

\* Line 154: returning drops temp_path, which removes the file at that path.
drop_after_rename(p) ==
    /\ pc[p] = "drop_after_rename"
    /\ fs' = remove_file(fs, temp_path[p])
    /\ Fail(p, "rename")
    /\ UNCHANGED <<pipe_input, local_exists, server, raw_url, response, content,
                   temp_path, final_path, gets, created, runs, engine_input>>

\* Line 159: Ok(final_path); temp_path is dropped here too and removes
\* whatever file now has the temporary name.
drop_after_ok(p) ==
    /\ pc[p] = "drop_after_ok"
    /\ fs' = remove_file(fs, temp_path[p])
    /\ result' = [result EXCEPT ![p] = Ok(final_path[p])]
    /\ pc' = [pc EXCEPT ![p] = "run_js"]
    /\ UNCHANGED <<pipe_input, local_exists, server, raw_url, response, content,
                   temp_path, final_path, gets, created, runs, engine_input,
                   exit_status>>

\* --------------------------------------------------------- the specifications

Next ==
    \E p \in Procs :
        \/ main_classify(p)
        \/ main_canonicalize(p)
        \/ main_run_js(p)
        \/ dl_normalize(p)
        \/ dl_validate(p)
        \/ dl_get(p)
        \/ dl_text(p)
        \/ dl_create(p)
        \/ dl_write(p)
        \/ dl_rename(p)
        \/ drop_after_write(p)
        \/ drop_after_rename(p)
        \/ drop_after_ok(p)

Spec == Init /\ [][Next]_vars

SpecTwo == InitTwo /\ [][Next]_vars

NextNorm == \E p \in Procs : dl_normalize(p)

SpecNorm == InitNorm /\ [][NextNorm]_vars

\* --------------------------------------------------------------------- claims

Active == {p \in Procs : pc[p] # "off"}

\* The host and the path segments of a URL text as written, before any parsing.
WrittenHost(url) == SplitOn(SubSeq(url, 4, Len(url)), Slash)[1]

WrittenSegments(url) == Tail(SplitOn(SubSeq(url, 4, Len(url)), Slash))

\* https://github.com/{owner}/{repo}/blob/{branch}/{rest...}, rest not empty.
IsBlobUrl(url) ==
    /\ WrittenHost(url) = GithubHost
    /\ Len(WrittenSegments(url)) >= 5
    /\ WrittenSegments(url)[3] = Blob

\* https://raw.githubusercontent.com/{owner}/{repo}/{branch}/{rest joined by "/"}
RawUrlOf(url) ==
    LET segs == WrittenSegments(url)
    IN  UrlString(RawHost, <<segs[1], segs[2], segs[4]>> \o SubSeq(segs, 5, Len(segs)))

HasDotSegment(url) ==
    \E i \in 1..Len(WrittenSegments(url)) :
        WrittenSegments(url)[i] \in {<<Dot>>, <<Dot, Dot>>}

\* C1: a GET is sent only for a normalized URL whose host is
\* raw.githubusercontent.com; an input whose normalized host is another one
\* ends with the unsupported-source error, with no request sent and no file
\* created.
C1_GetOnlyAfterHostCheck ==
    \A p \in Active :
        LET n == get_raw_github_url(pipe_input[p])
        IN  /\ gets[p] > 0 => n.tag = "Ok" /\ ParseUrl(n.url).host = RawHost
            /\ (n.tag = "Ok" /\ ParseUrl(n.url).host # RawHost) =>
                  /\ gets[p] = 0
                  /\ created[p] = 0
                  /\ \A f \in fs : f.owner # p
                  /\ pc[p] \in {"main", "dl_normalize", "dl_validate", "exit"}
                  /\ pc[p] = "exit" => result[p] = Err("unsupported")

C1_Witness ==
    \E p \in Active :
        /\ pc[p] = "exit"
        /\ ParseUrl(pipe_input[p]).host = ExampleHost
        /\ result[p] = Err("unsupported")
        /\ gets[p] = 0

C3_NormalizeNeverFails ==
    \A p \in Active :
        pc[p] # "dl_normalize" =>
            /\ pc[p] = "dl_validate"
            /\ result[p] = Pending
            /\ ParseUrl(raw_url[p]).ok
            /\ (\/ ParseUrl(pipe_input[p]).host # GithubHost
                \/ Len(ParseUrl(pipe_input[p]).segs) < 3) => raw_url[p] = pipe_input[p]

\* A success status: 200 to 299.
is_success(status) == status >= 200 /\ status <= 299

\* C4: a response of a non-success status fails the resolution with a fetch
\* error: no file is created, no path is returned and run_js is not called.
C4_NonSuccessStatusFails ==
    \A p \in Active :
        (response[p] # NoResponse /\ ~is_success(response[p].status)) =>
            /\ created[p] = 0
            /\ result[p].tag # "Ok"
            /\ runs[p] = 0
            /\ pc[p] \in {"dl_text", "exit"}
            /\ pc[p] = "exit" => result[p] \in {Err("get"), Err("text")}

\* The extension of a URL's path: of its last segment, else the default "js".
UrlPathExtension(url) ==
    LET segs == ParseUrl(url).segs
        e    == path_extension(segs[Len(segs)])
    IN  IF e.some THEN e.val ELSE DefaultExtension

\* C5: the path download_pipe returns has the extension of the input URL's
\* path, and "js" when that path has none.
C5_ExtensionOfUrlPath ==
    \A p \in Active :
        (result[p].tag = "Ok" /\ result[p].path.dir = "tmp") =>
            result[p].path.ext = UrlPathExtension(pipe_input[p])

\* C6: the file at the path download_pipe returns holds exactly the bytes of
\* the response body.
C6_FileHoldsBodyBytes ==
    \A p \in Active :
        (result[p].tag = "Ok" /\ result[p].path.dir = "tmp" /\ pc[p] = "run_js") =>
            \A f \in fs : f.name = result[p].path => f.data = response[p].body

\* C7: an input that is no URL and names no existing local path ends with the
\* canonicalize error; download_pipe is not entered, no request is sent, no
\* file is created and run_js is not called.
C7_MissingLocalPath ==
    \A p \in Active :
        (~ParseUrl(pipe_input[p]).ok /\ ~local_exists) =>
            /\ pc[p] \in {"main", "canonicalize", "exit"}
            /\ gets[p] = 0
            /\ created[p] = 0
            /\ fs = {}
            /\ runs[p] = 0
            /\ pc[p] = "exit" => result[p] = Err("canonicalize") /\ exit_status[p] = "err"

C7_Witness ==
    \E p \in Active :
        /\ pc[p] = "exit"
        /\ ~ParseUrl(pipe_input[p]).ok
        /\ ~local_exists
        /\ result[p] = Err("canonicalize")
        /\ runs[p] = 0

\* What a run holds, apart from the directory.
Own(p) ==
    <<pc[p], raw_url[p], response[p], content[p], temp_path[p], final_path[p],
      result[p], gets[p], created[p], runs[p], engine_input[p], exit_status[p]>>

\* C8: every error is terminal.  run_js is called exactly when the resolution
\* produced a path, and at most once; no request, file creation or run_js call
\* happens twice; after an error the run stands at its exit and nothing of it
\* changes any more.
C8_ErrorsAreTerminal ==
    /\ [](\A p \in Active :
            /\ gets[p] <= 1 /\ created[p] <= 1 /\ runs[p] <= 1
            /\ runs[p] = 1 => result[p].tag = "Ok" /\ pc[p] = "exit"
            /\ result[p].tag = "Ok" => \/ pc[p] = "run_js" /\ runs[p] = 0
                                       \/ pc[p] = "exit" /\ runs[p] = 1
            /\ result[p].tag \in {"Err", "Panic"} =>
                  /\ pc[p] = "exit"
                  /\ runs[p] = 0
                  /\ exit_status[p] \in {"err", "panic"})
    /\ [][\A p \in Procs :
            result[p].tag \in {"Err", "Panic"} => Own(p)' = Own(p) /\ fs' = fs]_vars

C8_Witness ==
    \E p \in Active :
        /\ pc[p] = "exit"
        /\ result[p] = Err("rename")
        /\ gets[p] = 1
        /\ created[p] = 1
        /\ runs[p] = 0

\* C9: two resolutions of the same URL never collide: the paths they return
\* differ, and no step of one removes or replaces a file the other created.
C9_NoCollision ==
    [][/\ \A f \in fs :
            (f \notin fs' /\ \A g \in fs' : ~(g.owner = f.owner /\ g.data = f.data))
                => pc'[f.owner] # pc[f.owner]
       /\ \A p, q \in Procs :
            (p # q /\ result'[p].tag = "Ok" /\ result'[q].tag = "Ok"
                   /\ result'[p].path.dir = "tmp")
                => result'[p].path # result'[q].path]_vars

\* C10 as stated: after a failed write or rename the file this resolution
\* created is still there under its temporary name when download_pipe returns
\* the error, and no file has the final name.
C10_TempFileLeftInPlace ==
    \A p \in Active :
        (pc[p] = "exit" /\ result[p] \in {Err("write"), Err("rename")}) =>
            /\ \E f \in fs : f.name = temp_path[p] /\ f.owner = p
            /\ \A f \in fs : f.name.ext = <<>>

\* C10 amended: after a failed write or rename the file this resolution
\* created is gone when download_pipe returns the error: it is removed under
\* its temporary name and was never given the final name.
C10_TempFileRemoved ==
    \A p \in Active :
        (pc[p] = "exit" /\ result[p] \in {Err("write"), Err("rename")}) =>
            /\ created[p] = 1
            /\ \A f \in fs : f.owner # p
            /\ ~Exists(fs, temp_path[p])
            /\ final_path[p] = NoPath

C10_Witness ==
    \E p \in Active :
        /\ pc[p] = "exit"
        /\ result[p] = Err("write")
        /\ created[p] = 1
        /\ fs = {}

====
